---- MODULE Spec2Model ----
(***************************************************************************)
(* SLA computation engine of the Change Management SLA dashboard           *)
(* (dashboard.py): classification, SLA rule resolution, business-calendar  *)
(* arithmetic and the ticket state projector (_parse_items).               *)
(*                                                                         *)
(* Strings are sequences of one-character strings, so that lower(),        *)
(* upper(), strip(), startswith() and the substring test are computed.     *)
(* Timestamps are seconds since a Monday 00:00:00 UTC; NaT is -1.          *)
(***************************************************************************)
EXTENDS Integers, Sequences, FiniteSets, TLC

\* ------------------------------------------------------------------------
\* Strings
\* ------------------------------------------------------------------------
UpperChars == <<"A","B","C","D","E","F","G","H","I","J","K","L","M","N","O","P","Q","R","S","T","U","V","W","X","Y","Z">>
LowerChars == <<"a","b","c","d","e","f","g","h","i","j","k","l","m","n","o","p","q","r","s","t","u","v","w","x","y","z">>

\* the case maps of the letters, as lookup tables
LowerMap ==
    [c \in {UpperChars[i] : i \in 1..Len(UpperChars)} |->
        LowerChars[CHOOSE i \in 1..Len(UpperChars) : UpperChars[i] = c]]
UpperMap ==
    [c \in {LowerChars[i] : i \in 1..Len(LowerChars)} |->
        UpperChars[CHOOSE i \in 1..Len(LowerChars) : LowerChars[i] = c]]

LowerCh(c) == IF c \in DOMAIN LowerMap THEN LowerMap[c] ELSE c
UpperCh(c) == IF c \in DOMAIN UpperMap THEN UpperMap[c] ELSE c

\* str.lower() / str.upper()
Lower(s) == [i \in 1..Len(s) |-> LowerCh(s[i])]
Upper(s) == [i \in 1..Len(s) |-> UpperCh(s[i])]

\* str.strip(): drop leading and trailing blanks
RECURSIVE LStrip(_)
LStrip(s) == IF Len(s) > 0 /\ s[1] = " " THEN LStrip(Tail(s)) ELSE s
RECURSIVE RStrip(_)
RStrip(s) ==
    IF Len(s) > 0 /\ s[Len(s)] = " " THEN RStrip(SubSeq(s, 1, Len(s) - 1)) ELSE s
Strip(s) == RStrip(LStrip(s))

\* s.startswith(p)
StartsWith(s, p) ==
    /\ Len(p) <= Len(s)
    /\ \A k \in 1..Len(p) : s[k] = p[k]

\* p in s  (substring test; the empty string is in every string)
Contains(s, p) ==
    \E i \in 0..(Len(s) - Len(p)) : \A k \in 1..Len(p) : s[i + k] = p[k]

s_Other == <<"O","t","h","e","r">>
s_Unknown == <<"U","n","k","n","o","w","n">>
s_default == <<"d","e","f","a","u","l","t">>
s_description == <<"d","e","s","c","r","i","p","t","i","o","n">>
s_info == <<"i","n","f","o">>
s_Completed == <<"C","o","m","p","l","e","t","e","d">>
s_Cancelled == <<"C","a","n","c","e","l","l","e","d">>
s_waiting_for_info == <<"w","a","i","t","i","n","g"," ","f","o","r"," ","i","n","f","o">>
s_pending_lockdown == <<"p","e","n","d","i","n","g"," ","l","o","c","k","d","o","w","n">>
s_Acquisition_Growth == <<"A","c","q","u","i","s","i","t","i","o","n"," ","&"," ","G","r","o","w","t","h">>
s_Acquisition_Win_Override == <<"A","c","q","u","i","s","i","t","i","o","n"," ","W","i","n"," ","O","v","e","r","r","i","d","e">>
s_Weekly_Win_Processing == <<"W","e","e","k","l","y"," ","W","i","n"," ","P","r","o","c","e","s","s","i","n","g">>

\* ------------------------------------------------------------------------
\* Team mapping (category prefix -> team), in declaration order
\* ------------------------------------------------------------------------
TEAM_MAP ==
    << << <<"P","S">>,
          <<"P","e","r","f","o","r","m","a","n","c","e"," ","S","o","l","u","t","i","o","n","s">> >>,
       << <<"A","c","q","u","i","s","i","t","i","o","n">>,
          <<"A","c","q","u","i","s","i","t","i","o","n"," ","&"," ","G","r","o","w","t","h">> >>,
       << <<"S","M","B">>,
          <<"S","M","B">> >>,
       << <<"M","A","T","S">>,
          <<"M","A","T","S">> >>,
       << <<"W","i","n","d","o","w","s"," ","S","t","o","r","e">>,
          <<"W","i","n","d","o","w","s"," ","S","t","o","r","e">> >>,
       << <<"A","D">>,
          <<"A","g","e","n","c","y"," ","D","e","v","e","l","o","p","m","e","n","t">> >> >>

\* the loop comparing the raw category, neither trimmed nor upper-cased
RECURSIVE resolve_team_from_Raw(_, _)
resolve_team_from_Raw(category, i) ==
    IF i > Len(TEAM_MAP) THEN s_Other
    ELSE IF StartsWith(category, TEAM_MAP[i][1])
         THEN TEAM_MAP[i][2]
         ELSE resolve_team_from_Raw(category, i + 1)

\* resolve_team without strip() and upper()
resolve_team_CaseSensitive(category) ==
    IF category = <<>> THEN s_Other ELSE resolve_team_from_Raw(category, 1)

\* the loop over TEAM_MAP.items(); folded = category.strip().upper()
RECURSIVE resolve_team_from(_, _)
resolve_team_from(folded, i) ==
    IF i > Len(TEAM_MAP) THEN s_Other
    ELSE IF StartsWith(folded, Upper(TEAM_MAP[i][1]))
         THEN TEAM_MAP[i][2]
         ELSE resolve_team_from(folded, i + 1)

resolve_team(category) ==
    IF category = <<>> THEN s_Other
    ELSE resolve_team_from(Upper(Strip(category)), 1)

\* ------------------------------------------------------------------------
\* Scenario mapping (sub-type keyword -> scenario), in declaration order
\* ------------------------------------------------------------------------
SCENARIO_MAP ==
    << << <<"G","r","o","u","p","i","n","g"," ","o","r"," ","H","M">>,
          <<"C","u","s","t","o","m","e","r"," ","G","r","o","u","p","i","n","g"," ","/"," ","H","i","e","r","a","r","c","h","y"," ","M","a","n","a","g","e","m","e","n","t">> >>,
       << <<"P","e","r","s","o","n","n","e","l">>,
          <<"P","e","r","s","o","n","n","e","l"," ","C","h","a","n","g","e","s">> >>,
       << <<"S","L">>,
          <<"O","w","n","e","d","-","B","y"," ","/"," ","A","g","e","n","c","y"," ","/"," ","S","e","r","v","i","c","e"," ","L","o","c","a","t","i","o","n"," ","O","v","e","r","r","i","d","e">> >>,
       << <<"R","e","p","a","r","e","n","t","i","n","g">>,
          <<"O","w","n","e","d","-","B","y"," ","/"," ","A","g","e","n","c","y"," ","/"," ","S","e","r","v","i","c","e"," ","L","o","c","a","t","i","o","n"," ","O","v","e","r","r","i","d","e">> >>,
       << <<"B","o","o","k"," ","A","s","s","i","g","n","m","e","n","t">>,
          <<"B","o","o","k"," ","A","s","s","i","g","n","m","e","n","t"," ","U","p","d","a","t","e">> >>,
       << <<"B","o","o","k"," ","u","p","d","a","t","e"," ","i","n"," ","D","y","n","a","m","i","c","s">>,
          <<"B","o","o","k"," ","A","s","s","i","g","n","m","e","n","t"," ","U","p","d","a","t","e">> >>,
       << <<"B","o","o","k"," ","u","p","d","a","t","e"," ","i","n"," ","T","e","c","h">>,
          <<"B","o","o","k"," ","A","s","s","i","g","n","m","e","n","t"," ","U","p","d","a","t","e">> >>,
       << <<"Q","u","o","t","a"," ","M","o","v","e">>,
          <<"Q","u","o","t","a"," ","M","o","v","e","s">> >>,
       << <<"Q","u","o","t","a"," ","M","o","v","e","s">>,
          <<"Q","u","o","t","a"," ","M","o","v","e","s">> >>,
       << <<"C","h","a","n","n","e","l"," ","P","a","r","t","n","e","r">>,
          <<"C","h","a","n","n","e","l"," ","P","a","r","t","n","e","r"," ","L","i","n","k","a","g","e","s">> >>,
       << <<"V","a","l","i","d"," ","W","i","n">>,
          <<"W","e","e","k","l","y"," ","W","i","n"," ","P","r","o","c","e","s","s","i","n","g">> >>,
       << <<"W","i","n"," ","O","v","e","r","r","i","d","e">>,
          <<"A","c","q","u","i","s","i","t","i","o","n"," ","W","i","n"," ","O","v","e","r","r","i","d","e">> >>,
       << <<"G","r","o","w","t","h"," ","M","P","M">>,
          <<"P","r","e","/","P","o","s","t"," ","G","r","o","w","t","h"," ","M","P","M"," ","A","s","s","i","g","n","m","e","n","t">> >>,
       << <<"N","e","w"," ","C","l","i","e","n","t"," ","N","o","m","i","n","a","t","i","o","n">>,
          <<"N","e","w"," ","C","l","i","e","n","t"," ","N","o","m","i","n","a","t","i","o","n"," ","P","r","o","c","e","s","s","i","n","g">> >>,
       << <<"H","i","e","r","a","r","c","h","y"," ","M","a","p","p","i","n","g">>,
          <<"H","i","e","r","a","r","c","h","y"," ","M","a","p","p","i","n","g">> >>,
       << <<"N","e","w"," ","J","o","i","n","e","r"," ","M","a","p","p","i","n","g">>,
          <<"M","a","p","p","i","n","g"," ","N","e","w"," ","J","o","i","n","e","r","s"," ","t","o"," ","S","a","l","e","s"," ","H","o","u","s","e","s">> >>,
       << <<"B","a","d"," ","A","g","e","n","c","y"," ","S","e","t","u","p">>,
          <<"B","a","d"," ","A","g","e","n","c","y"," ","S","e","t","u","p">> >>,
       << <<"M","i","s","s","i","n","g"," ","C","o","n","t","a","c","t","s">>,
          <<"M","i","s","s","i","n","g"," ","C","o","n","t","a","c","t","s">> >>,
       << <<"U","n","e","n","g","a","g","e","d">>,
          <<"U","n","e","n","g","a","g","e","d"," ","/"," ","I","n","a","c","t","i","v","e"," ","C","l","i","e","n","t","s">> >> >>

\* the loop with the one-way test: keyword in sub-type only
RECURSIVE resolve_scenario_from_OneWay(_, _, _)
resolve_scenario_from_OneWay(sub_type, folded, i) ==
    IF i > Len(SCENARIO_MAP) THEN sub_type
    ELSE IF Contains(folded, Lower(SCENARIO_MAP[i][1]))
         THEN SCENARIO_MAP[i][2]
         ELSE resolve_scenario_from_OneWay(sub_type, folded, i + 1)

\* the loop over SCENARIO_MAP.items(); folded = sub_type.lower()
RECURSIVE resolve_scenario_from(_, _, _)
resolve_scenario_from(sub_type, folded, i) ==
    IF i > Len(SCENARIO_MAP) THEN sub_type
    ELSE LET key == Lower(SCENARIO_MAP[i][1])
         IN  IF Contains(folded, key) \/ Contains(key, folded)
             THEN SCENARIO_MAP[i][2]
             ELSE resolve_scenario_from(sub_type, folded, i + 1)

resolve_scenario(sub_type) ==
    IF sub_type = <<>> \/ sub_type = s_Unknown
    THEN s_Other
    ELSE resolve_scenario_from(sub_type, Lower(sub_type), 1)

\* ------------------------------------------------------------------------
\* Scenario SLA definitions.  An entry is the ordered list of the keys of the
\* scenario's dict; "description" and "info" hold text (isint = FALSE).
\* ------------------------------------------------------------------------
StrEntries(ints) ==
    ints \o << [key |-> s_description, isint |-> FALSE, val |-> 0],
               [key |-> s_info, isint |-> FALSE, val |-> 0] >>

SCENARIO_SLA ==
    << [scenario |-> <<"C","u","s","t","o","m","e","r"," ","G","r","o","u","p","i","n","g"," ","/"," ","H","i","e","r","a","r","c","h","y"," ","M","a","n","a","g","e","m","e","n","t">>,
        sla |-> StrEntries(<< [key |-> <<"d","e","f","a","u","l","t">>, isint |-> TRUE, val |-> 4] >>)],
       [scenario |-> <<"P","e","r","s","o","n","n","e","l"," ","C","h","a","n","g","e","s">>,
        sla |-> StrEntries(<< [key |-> <<"d","e","f","a","u","l","t">>, isint |-> TRUE, val |-> 3] >>)],
       [scenario |-> <<"O","w","n","e","d","-","B","y"," ","/"," ","A","g","e","n","c","y"," ","/"," ","S","e","r","v","i","c","e"," ","L","o","c","a","t","i","o","n"," ","O","v","e","r","r","i","d","e">>,
        sla |-> StrEntries(<< [key |-> <<"d","e","f","a","u","l","t">>, isint |-> TRUE, val |-> 2] >>)],
       [scenario |-> <<"C","h","a","n","n","e","l"," ","P","a","r","t","n","e","r"," ","L","i","n","k","a","g","e","s">>,
        sla |-> StrEntries(<< [key |-> <<"d","e","f","a","u","l","t">>, isint |-> TRUE, val |-> 3] >>)],
       [scenario |-> <<"B","o","o","k"," ","A","s","s","i","g","n","m","e","n","t"," ","U","p","d","a","t","e">>,
        sla |-> StrEntries(<< [key |-> <<"d","e","f","a","u","l","t">>, isint |-> TRUE, val |-> 2], [key |-> <<"M","A","T","S">>, isint |-> TRUE, val |-> 4] >>)],
       [scenario |-> <<"Q","u","o","t","a"," ","M","o","v","e","s">>,
        sla |-> StrEntries(<< [key |-> <<"d","e","f","a","u","l","t">>, isint |-> TRUE, val |-> 3] >>)],
       [scenario |-> <<"W","e","e","k","l","y"," ","W","i","n"," ","P","r","o","c","e","s","s","i","n","g">>,
        sla |-> StrEntries(<< [key |-> <<"d","e","f","a","u","l","t">>, isint |-> TRUE, val |-> 3] >>)],
       [scenario |-> <<"A","c","q","u","i","s","i","t","i","o","n"," ","W","i","n"," ","O","v","e","r","r","i","d","e">>,
        sla |-> StrEntries(<< [key |-> <<"d","e","f","a","u","l","t">>, isint |-> TRUE, val |-> 5] >>)],
       [scenario |-> <<"P","r","e","/","P","o","s","t"," ","G","r","o","w","t","h"," ","M","P","M"," ","A","s","s","i","g","n","m","e","n","t">>,
        sla |-> StrEntries(<< [key |-> <<"d","e","f","a","u","l","t">>, isint |-> TRUE, val |-> 2] >>)],
       [scenario |-> <<"N","e","w"," ","C","l","i","e","n","t"," ","N","o","m","i","n","a","t","i","o","n"," ","P","r","o","c","e","s","s","i","n","g">>,
        sla |-> StrEntries(<< [key |-> <<"d","e","f","a","u","l","t">>, isint |-> TRUE, val |-> 5] >>)],
       [scenario |-> <<"H","i","e","r","a","r","c","h","y"," ","M","a","p","p","i","n","g">>,
        sla |-> StrEntries(<< [key |-> <<"d","e","f","a","u","l","t">>, isint |-> TRUE, val |-> 5] >>)],
       [scenario |-> <<"M","a","p","p","i","n","g"," ","N","e","w"," ","J","o","i","n","e","r","s"," ","t","o"," ","S","a","l","e","s"," ","H","o","u","s","e","s">>,
        sla |-> StrEntries(<< [key |-> <<"d","e","f","a","u","l","t">>, isint |-> TRUE, val |-> 3] >>)],
       [scenario |-> <<"B","a","d"," ","A","g","e","n","c","y"," ","S","e","t","u","p">>,
        sla |-> StrEntries(<< [key |-> <<"d","e","f","a","u","l","t">>, isint |-> TRUE, val |-> 5] >>)],
       [scenario |-> <<"M","i","s","s","i","n","g"," ","C","o","n","t","a","c","t","s">>,
        sla |-> StrEntries(<< [key |-> <<"d","e","f","a","u","l","t">>, isint |-> TRUE, val |-> 5] >>)],
       [scenario |-> <<"U","n","e","n","g","a","g","e","d"," ","/"," ","I","n","a","c","t","i","v","e"," ","C","l","i","e","n","t","s">>,
        sla |-> StrEntries(<< [key |-> <<"d","e","f","a","u","l","t">>, isint |-> TRUE, val |-> 5] >>)] >>

DEFAULT_SLA == StrEntries(<< [key |-> s_default, isint |-> TRUE, val |-> 5] >>)

\* Team-level SLA overrides, keys in declaration order
TEAM_SLA_OVERRIDES ==
    << [team |-> <<"S","M","B">>,
        overrides |-> << [key |-> s_default, val |-> 5] >>],
       [team |-> <<"W","i","n","d","o","w","s"," ","S","t","o","r","e">>,
        overrides |-> << [key |-> s_default, val |-> 3] >>],
       [team |-> s_Acquisition_Growth,
        overrides |-> << [key |-> <<"B","o","o","k"," ","A","s","s","i","g","n","m","e","n","t">>, val |-> 2],
                         [key |-> <<"G","r","o","u","p","i","n","g"," ","o","r"," ","H","M">>, val |-> 4],
                         [key |-> <<"C","u","s","t","o","m","e","r"," ","G","r","o","u","p","i","n","g"," ","/"," ","H","i","e","r","a","r","c","h","y"," ","M","a","n","a","g","e","m","e","n","t">>, val |-> 4] >>] >>

\* dict.get for the two tables: the entry of the key, or the fallback
TeamOverridesOf(team) ==
    IF \E i \in 1..Len(TEAM_SLA_OVERRIDES) : TEAM_SLA_OVERRIDES[i].team = team
    THEN TEAM_SLA_OVERRIDES[
             CHOOSE i \in 1..Len(TEAM_SLA_OVERRIDES) : TEAM_SLA_OVERRIDES[i].team = team
         ].overrides
    ELSE <<>>

ScenarioSlaOf(scenario) ==
    IF \E i \in 1..Len(SCENARIO_SLA) : SCENARIO_SLA[i].scenario = scenario
    THEN SCENARIO_SLA[
             CHOOSE i \in 1..Len(SCENARIO_SLA) : SCENARIO_SLA[i].scenario = scenario
         ].sla
    ELSE DEFAULT_SLA

HasKey(entries, k) == \E i \in 1..Len(entries) : entries[i].key = k
ValOf(entries, k) == entries[CHOOSE i \in 1..Len(entries) : entries[i].key = k].val

\* the scan of a team's override keys: first key (not "default") whose
\* lower-cased text is in the lower-cased scenario; 0 = no key matched
RECURSIVE team_override_scan(_, _, _)
team_override_scan(ov, scenario, i) ==
    IF i > Len(ov) THEN 0
    ELSE IF ov[i].key # s_default /\ Contains(Lower(scenario), Lower(ov[i].key))
         THEN i
         ELSE team_override_scan(ov, scenario, i + 1)

\* the scan of the scenario entry: first integer key other than
\* default/description/info whose upper-cased text is in the upper-cased team
RECURSIVE scenario_team_scan(_, _, _)
scenario_team_scan(sla, team, i) ==
    IF i > Len(sla) THEN 0
    ELSE IF /\ sla[i].key \notin {s_default, s_description, s_info}
            /\ sla[i].isint
            /\ Contains(Upper(team), Upper(sla[i].key))
         THEN i
         ELSE scenario_team_scan(sla, team, i + 1)

\* the scenario entry's default, its team exceptions ignored
scenario_level_sla_DefaultOnly(scenario, team) ==
    LET sla == ScenarioSlaOf(scenario)
    IN  IF HasKey(sla, s_default) THEN ValOf(sla, s_default) ELSE 5

scenario_level_sla(scenario, team) ==
    LET sla == ScenarioSlaOf(scenario)
        hit == scenario_team_scan(sla, team, 1)
    IN  IF hit # 0 THEN sla[hit].val
        ELSE IF HasKey(sla, s_default) THEN ValOf(sla, s_default) ELSE 5

\* get_sla_days that looks at the scenario catalog before the team overrides
get_sla_days_ScenarioFirst(scenario, team) ==
    IF \E i \in 1..Len(SCENARIO_SLA) : SCENARIO_SLA[i].scenario = scenario
    THEN scenario_level_sla(scenario, team)
    ELSE LET team_overrides == TeamOverridesOf(team)
         IN  IF team_overrides # <<>> /\ HasKey(team_overrides, s_default)
             THEN ValOf(team_overrides, s_default)
             ELSE scenario_level_sla(scenario, team)

get_sla_days(scenario, team) ==
    LET team_overrides == TeamOverridesOf(team)
        hit == team_override_scan(team_overrides, scenario, 1)
    IN  IF team_overrides # <<>>
        THEN IF Len(team_overrides) = 1 /\ HasKey(team_overrides, s_default)
             THEN ValOf(team_overrides, s_default)
             ELSE IF hit # 0 THEN team_overrides[hit].val
             ELSE IF HasKey(team_overrides, s_default)
                  THEN ValOf(team_overrides, s_default)
                  ELSE scenario_level_sla(scenario, team)
        ELSE scenario_level_sla(scenario, team)

MONDAY_DEADLINE_SCENARIOS == {s_Acquisition_Win_Override, s_Weekly_Win_Processing}

\* ------------------------------------------------------------------------
\* Business-day helpers
\* ------------------------------------------------------------------------
NaT == -1
DaySecs == 86400
EndOfDay == 23 * 3600 + 59 * 60

isna(t) == t = NaT
notna(t) == t # NaT

\* Timestamp.weekday(): 0 = Monday ... 6 = Sunday
weekday(t) == (t \div DaySecs) % 7

\* Timestamp.date(), as a day number
DateOf(t) == t \div DaySecs

\* Timestamp.normalize(): midnight of the same date
normalize(t) == (t \div DaySecs) * DaySecs

\* next_monday without the "submitted on Monday" adjustment
next_monday_SameDay(dt) ==
    IF isna(dt) THEN NaT
    ELSE normalize(dt + ((7 - weekday(dt)) % 7) * DaySecs) + EndOfDay

next_monday(dt) ==
    IF isna(dt) THEN NaT
    ELSE LET ahead == (7 - weekday(dt)) % 7
             days_ahead == IF ahead = 0 THEN 7 ELSE ahead
         IN  normalize(dt + days_ahead * DaySecs) + EndOfDay

\* the loop counting Saturday as a business day (weekday() <= 5)
RECURSIVE add_business_days_loop_Saturday(_, _, _)
add_business_days_loop_Saturday(current, added, n) ==
    IF added < n
    THEN LET nxt == current + DaySecs
         IN  add_business_days_loop_Saturday(
                 nxt, IF weekday(nxt) <= 5 THEN added + 1 ELSE added, n)
    ELSE current

RECURSIVE add_business_days_loop(_, _, _)
add_business_days_loop(current, added, n) ==
    IF added < n
    THEN LET nxt == current + DaySecs
         IN  add_business_days_loop(nxt, IF weekday(nxt) < 5 THEN added + 1 ELSE added, n)
    ELSE current

add_business_days(start, n) ==
    IF isna(start) THEN NaT ELSE add_business_days_loop(start, 0, n)

\* len(pd.bdate_range(s, e)): the Monday-Friday dates of the inclusive range
bdate_range_len(s, e) ==
    Cardinality({d \in (s \div DaySecs)..(e \div DaySecs) : d % 7 < 5})

\* business_days_between without the floor at 0
business_days_between_NoFloor(start, end) ==
    IF isna(start) \/ isna(end) THEN 0
    ELSE bdate_range_len(normalize(start), normalize(end)) - 1

business_days_between(start, end) ==
    IF isna(start) \/ isna(end) THEN 0
    ELSE LET n == bdate_range_len(normalize(start), normalize(end)) - 1
         IN  IF n > 0 THEN n ELSE 0

\* ------------------------------------------------------------------------
\* Work items as the tracker returns them.  A date field is absent, text
\* that does not parse, or an ISO timestamp.
\* ------------------------------------------------------------------------
NoDate == [kind |-> "none", t |-> 0]
BadDate == [kind |-> "bad", t |-> 0]
IsoDate(t) == [kind |-> "iso", t |-> t]

\* pd.to_datetime(col, errors="coerce", utc=True)
to_datetime(v) == IF v.kind = "iso" THEN v.t ELSE NaT

\* ------------------------------------------------------------------------
\* _parse_items
\* ------------------------------------------------------------------------
\* rows.append({...}) followed by the date coercion of the five date columns
RawRow(item) ==
    [ID |-> item.Id,
     State |-> item.State,
     CreatedDate |-> to_datetime(item.CreatedDate),
     ClosedDate |-> to_datetime(item.ClosedDate),
     EndDate |-> to_datetime(item.EndDate),
     SubType |-> item.State1,
     RawCategory |-> item.Category,
     Team |-> resolve_team(item.Category),
     Scenario |-> resolve_scenario(item.State1),
     StateChangeDate |-> to_datetime(item.StateChangeDate)]

\* IsOpen that forgets the Cancelled state
IsOpenOf_OnlyCompleted(row) == row.State # s_Completed

IsOpenOf(row) == row.State \notin {s_Completed, s_Cancelled}

\* IsMondayDeadline decided by the scenario alone
IsMondayDeadlineOf_AnyTeam(row) == row.Scenario \in MONDAY_DEADLINE_SCENARIOS

IsMondayDeadlineOf(row) ==
    /\ row.Scenario \in MONDAY_DEADLINE_SCENARIOS
    /\ row.Team = s_Acquisition_Growth

compute_deadline(row) ==
    IF row.IsMondayDeadline
    THEN next_monday(row.CreatedDate)
    ELSE add_business_days(row.CreatedDate, row.SLA_Days)

\* IsPaused without lower-casing the state
IsPausedOf_CaseSensitive(row) ==
    \/ Contains(row.State, s_waiting_for_info)
    \/ Contains(row.State, s_pending_lockdown)

IsPausedOf(row) ==
    \/ Contains(Lower(row.State), s_waiting_for_info)
    \/ Contains(Lower(row.State), s_pending_lockdown)

\* end = EndDate if notna else (ClosedDate if notna else ref_time)
closure_point(row, ref_time) ==
    IF notna(row.EndDate) THEN row.EndDate
    ELSE IF notna(row.ClosedDate) THEN row.ClosedDate ELSE ref_time

\* calc_elapsed that lets a paused ticket run to the reference time
calc_elapsed_PausedToNow(row, ref_time) ==
    business_days_between(row.CreatedDate,
        IF ~row.IsOpen THEN closure_point(row, ref_time) ELSE ref_time)

\* calc_elapsed that counts the days of the current week only
calc_elapsed_WeekdayDiff(row, ref_time) ==
    LET start == row.CreatedDate
        end == IF ~row.IsOpen THEN closure_point(row, ref_time)
               ELSE IF row.IsPaused
                    THEN IF notna(row.StateChangeDate) THEN row.StateChangeDate ELSE ref_time
                    ELSE ref_time
    IN  IF weekday(end) > weekday(start) THEN weekday(end) - weekday(start) ELSE 0

calc_elapsed(row, ref_time) ==
    LET start == row.CreatedDate
        end == IF ~row.IsOpen THEN closure_point(row, ref_time)
               ELSE IF row.IsPaused
                    THEN IF notna(row.StateChangeDate) THEN row.StateChangeDate ELSE ref_time
                    ELSE ref_time
    IN  business_days_between(start, end)

\* calc_remaining that drops the sign of a late closure
calc_remaining_Unsigned(row, ref_time) ==
    IF row.IsMondayDeadline
    THEN IF ~row.IsOpen
         THEN LET end == closure_point(row, ref_time)
              IN  IF end <= row.SLA_Deadline
                  THEN business_days_between(end, row.SLA_Deadline)
                  ELSE business_days_between(row.SLA_Deadline, end)
         ELSE IF row.IsPaused
              THEN LET pause_point == IF notna(row.StateChangeDate)
                                      THEN row.StateChangeDate ELSE ref_time
                   IN  business_days_between(pause_point, row.SLA_Deadline)
              ELSE business_days_between(ref_time, row.SLA_Deadline)
    ELSE row.SLA_Days - row.Elapsed_BDays

\* calc_remaining that counts an open Monday-deadline ticket's days past the
\* deadline as negative
calc_remaining_SignedOpen(row, ref_time) ==
    IF row.IsMondayDeadline /\ row.IsOpen /\ ~row.IsPaused /\ ref_time > row.SLA_Deadline
    THEN -business_days_between(row.SLA_Deadline, ref_time)
    ELSE IF row.IsMondayDeadline
    THEN IF ~row.IsOpen
         THEN LET end == closure_point(row, ref_time)
              IN  IF end <= row.SLA_Deadline
                  THEN business_days_between(end, row.SLA_Deadline)
                  ELSE -business_days_between(row.SLA_Deadline, end)
         ELSE IF row.IsPaused
              THEN LET pause_point == IF notna(row.StateChangeDate)
                                      THEN row.StateChangeDate ELSE ref_time
                   IN  business_days_between(pause_point, row.SLA_Deadline)
              ELSE business_days_between(ref_time, row.SLA_Deadline)
    ELSE row.SLA_Days - row.Elapsed_BDays

calc_remaining(row, ref_time) ==
    IF row.IsMondayDeadline
    THEN IF ~row.IsOpen
         THEN LET end == closure_point(row, ref_time)
              IN  IF end <= row.SLA_Deadline
                  THEN business_days_between(end, row.SLA_Deadline)
                  ELSE -business_days_between(row.SLA_Deadline, end)
         ELSE IF row.IsPaused
              THEN LET pause_point == IF notna(row.StateChangeDate)
                                      THEN row.StateChangeDate ELSE ref_time
                   IN  business_days_between(pause_point, row.SLA_Deadline)
              ELSE business_days_between(ref_time, row.SLA_Deadline)
    ELSE row.SLA_Days - row.Elapsed_BDays

\* sla_status with the On Track threshold one day too low
sla_status_OnTrackFromOne(row, ref_time) ==
    IF ~row.IsOpen
    THEN IF row.IsMondayDeadline
         THEN IF closure_point(row, ref_time) <= row.SLA_Deadline
              THEN "Completed" ELSE "Completed Late"
         ELSE IF row.Elapsed_BDays <= row.SLA_Days
              THEN "Completed" ELSE "Completed Late"
    ELSE IF row.IsPaused THEN "Paused"
    ELSE IF row.Remaining_BDays >= 1 THEN "On Track"
    ELSE IF row.Remaining_BDays >= 0 THEN "At Risk"
    ELSE "Breached"

\* sla_status with strict comparisons for closed tickets
sla_status_StrictClosed(row, ref_time) ==
    IF ~row.IsOpen
    THEN IF row.IsMondayDeadline
         THEN IF closure_point(row, ref_time) < row.SLA_Deadline
              THEN "Completed" ELSE "Completed Late"
         ELSE IF row.Elapsed_BDays < row.SLA_Days
              THEN "Completed" ELSE "Completed Late"
    ELSE IF row.IsPaused THEN "Paused"
    ELSE IF row.Remaining_BDays > 1 THEN "On Track"
    ELSE IF row.Remaining_BDays >= 0 THEN "At Risk"
    ELSE "Breached"

sla_status(row, ref_time) ==
    IF ~row.IsOpen
    THEN IF row.IsMondayDeadline
         THEN IF closure_point(row, ref_time) <= row.SLA_Deadline
              THEN "Completed" ELSE "Completed Late"
         ELSE IF row.Elapsed_BDays <= row.SLA_Days
              THEN "Completed" ELSE "Completed Late"
    ELSE IF row.IsPaused THEN "Paused"
    ELSE IF row.Remaining_BDays > 1 THEN "On Track"
    ELSE IF row.Remaining_BDays >= 0 THEN "At Risk"
    ELSE "Breached"

\* the derived columns of one row, added in the order of the code
ProjectRow(raw, ref_time) ==
    LET r1 == raw @@ [IsOpen |-> IsOpenOf(raw),
                      SLA_Days |-> get_sla_days(raw.Scenario, raw.Team),
                      IsMondayDeadline |-> IsMondayDeadlineOf(raw)]
        r2 == r1 @@ [SLA_Deadline |-> compute_deadline(r1),
                     IsPaused |-> IsPausedOf(r1)]
        r3 == r2 @@ [Elapsed_BDays |-> calc_elapsed(r2, ref_time)]
        r4 == r3 @@ [Remaining_BDays |-> calc_remaining(r3, ref_time)]
    IN  r4 @@ [SLA_Status |-> sla_status(r4, ref_time)]

\* df.dropna(subset=["CreatedDate"])
HasCreatedDate(raw) == notna(raw.CreatedDate)

\* _parse_items without the dropna on CreatedDate
_parse_items_NoDropna(all_items, ref_time) ==
    [i \in 1..Len(all_items) |-> ProjectRow(RawRow(all_items[i]), ref_time)]

\* When dropna removes every row the frame is empty; df.apply(f, axis=1) on
\* an empty frame (pandas 1.3 and later) probes f with a row of NaN, which
\* none of the five row functions rejects, and returns an empty Series, so
\* the result is the empty frame.
_parse_items(all_items, ref_time) ==
    LET rows == [i \in 1..Len(all_items) |-> RawRow(all_items[i])]
        kept == SelectSeq(rows, HasCreatedDate)
    IN  [i \in 1..Len(kept) |-> ProjectRow(kept[i], ref_time)]

\* ------------------------------------------------------------------------
\* State
\* ------------------------------------------------------------------------
VARIABLES
    now,      \* the clock: pd.Timestamp.now(tz=utc) when read
    items,    \* the work items held by the tracker (sequence)
    df,       \* the data frame of the last fetch: [ref |-> time, rows |-> rows]
    call,     \* the last call of a business-day helper and its result
    clock_bdays, \* history: per work item, the Monday-Friday dates that began
                 \* while the item was open and not paused (its SLA clock ran)
    comments,       \* per ticket, the number of SLA alert comments on it
    session_state,  \* st.session_state["notified_tickets"], when present
    notified_file,  \* the content of NOTIFIED_FILE, when it exists
    http_log        \* per ticket, the requests of the last notification cycle

vars == <<now, items, df, call, clock_bdays,
          comments, session_state, notified_file, http_log>>

notify_vars == <<comments, session_state, notified_file, http_log>>

\* no notified list stored
Absent == [present |-> FALSE, ids |-> {}]
Stored(ids) == [present |-> TRUE, ids |-> ids]

\* the notification state of a dashboard that has not run a cycle
NotifyIdle ==
    /\ comments = <<>>
    /\ session_state = Absent
    /\ notified_file = Absent
    /\ http_log = <<>>

NoFrame == [ref |-> NaT, rows |-> <<>>]
NoCall == [op |-> "none", a |-> 0, b |-> 0, result |-> 0]

\* fetch_work_items: one reference time per cycle, shared by all tickets
fetch_work_items ==
    /\ df' = [ref |-> now, rows |-> _parse_items(items, now)]
    /\ UNCHANGED <<now, items, call, clock_bdays>>
    /\ UNCHANGED notify_vars

\* ------------------------------------------------------------------------
\* Bounds and input sets
\* ------------------------------------------------------------------------
MaxDay == 12
Days == 0..MaxDay
Noon == 12 * 3600

st_Active == <<"A","c","t","i","v","e">>
st_Waiting == <<"W","a","i","t","i","n","g"," ","f","o","r"," ","I","n","f","o">>
st_PENDING == <<"P","E","N","D","I","N","G"," ","L","O","C","K","D","O","W","N">>
st_lower_completed == <<"c","o","m","p","l","e","t","e","d">>

States == {st_Active, st_Waiting, st_PENDING, s_Completed, s_Cancelled, st_lower_completed}

\* (Custom.Category, Custom.State1) of the probe tickets
Kinds ==
    { << <<"A","c","q","u","i","s","i","t","i","o","n">>, <<"V","a","l","i","d"," ","W","i","n">> >>,
      << <<"a","c","q","u","i","s","i","t","i","o","n"," ","&"," ","g","r","o","w","t","h">>, <<"W","i","n"," ","O","v","e","r","r","i","d","e">> >>,
      << <<"P","S","-","1">>, <<"V","a","l","i","d"," ","W","i","n">> >>,
      << <<"M","A","T","S">>, <<"B","o","o","k"," ","A","s","s","i","g","n","m","e","n","t">> >>,
      << <<" "," ","s","m","b"," ">>, <<"Q","u","o","t","a"," ","M","o","v","e">> >>,
      << <<>>, s_Unknown >>,
      << <<"A","c","q","u","i","s","i","t","i","o","n">>, <<"B","o","o","k"," ","A","s","s","i","g","n","m","e","n","t">> >>,
      << <<"W","i","n","d","o","w","s"," ","S","t","o","r","e">>, <<"T","o","t","a","l","l","y"," ","C","u","s","t","o","m"," ","T","h","i","n","g">> >> }

CreatedDates ==
    {NoDate, BadDate} \cup {IsoDate(d * DaySecs + 9 * 3600) : d \in 0..6}
EndDates ==
    {NoDate} \cup {IsoDate(d * DaySecs + EndOfDay + s) : d \in {x \in Days : x % 6 = 1}, s \in {0, 30}}
ClosedDates ==
    {NoDate} \cup {IsoDate(d * DaySecs + Noon) : d \in {x \in Days : x % 8 = 2}}
StateChangeDates ==
    {NoDate} \cup {IsoDate(d * DaySecs + Noon) : d \in {x \in Days : x % 6 = 5}}
RefTimes == {d * DaySecs + Noon : d \in {x \in Days : x % 3 = 0}}

WorkItem(id, k, st, c, cl, e, sc) ==
    [Id |-> id, Category |-> k[1], State1 |-> k[2], State |-> st,
     CreatedDate |-> c, ClosedDate |-> cl, EndDate |-> e, StateChangeDate |-> sc]

\* ------------------------------------------------------------------------
\* SpecProj: one fetch of an arbitrary ticket at an arbitrary reference time
\* ------------------------------------------------------------------------
InitProj ==
    /\ now \in RefTimes
    /\ \E k \in Kinds, st \in States, c \in CreatedDates, cl \in ClosedDates,
          e \in EndDates, sc \in StateChangeDates :
          items = << WorkItem(1, k, st, c, cl, e, sc) >>
    /\ df = NoFrame
    /\ call = NoCall
    /\ clock_bdays = <<0>>
    /\ NotifyIdle

NextProj == fetch_work_items

SpecProj == InitProj /\ [][NextProj]_vars

\* ------------------------------------------------------------------------
\* SpecCal: calls of the business-day helpers on arbitrary timestamps
\* ------------------------------------------------------------------------
MaxN == 6

CalTimes ==
    {NaT} \cup {d * DaySecs + tod : d \in Days, tod \in {0, Noon, EndOfDay + 30}}

CallNextMonday ==
    /\ call = NoCall
    /\ \E t \in CalTimes :
          call' = [op |-> "next_monday", a |-> t, b |-> 0, result |-> next_monday(t)]
    /\ UNCHANGED <<now, items, df, clock_bdays>>
    /\ UNCHANGED notify_vars

CallAddBusinessDays ==
    /\ call = NoCall
    /\ \E t \in CalTimes, n \in 0..MaxN :
          call' = [op |-> "add_business_days", a |-> t, b |-> n,
                   result |-> add_business_days(t, n)]
    /\ UNCHANGED <<now, items, df, clock_bdays>>
    /\ UNCHANGED notify_vars

CallBusinessDaysBetween ==
    /\ call = NoCall
    /\ \E t \in CalTimes, u \in CalTimes :
          call' = [op |-> "business_days_between", a |-> t, b |-> u,
                   result |-> business_days_between(t, u)]
    /\ UNCHANGED <<now, items, df, clock_bdays>>
    /\ UNCHANGED notify_vars

InitCal ==
    /\ now = 0
    /\ items = <<>>
    /\ df = NoFrame
    /\ call = NoCall
    /\ clock_bdays = <<>>
    /\ NotifyIdle

NextCal == CallNextMonday \/ CallAddBusinessDays \/ CallBusinessDaysBetween

SpecCal == InitCal /\ [][NextCal]_vars

\* ------------------------------------------------------------------------
\* Spec: the life of a ticket in the tracker, the clock, and the dashboard's
\* fetch cycles
\* ------------------------------------------------------------------------
MaxChanges == 2

LifeStates == {st_Active, st_Waiting, st_PENDING, s_Completed}

\* (Custom.Category, Custom.State1): a Monday-deadline ticket and two others
LifeKinds ==
    { << <<"A","c","q","u","i","s","i","t","i","o","n">>, <<"V","a","l","i","d"," ","W","i","n">> >>,
      << <<"P","S","-","1">>, <<"V","a","l","i","d"," ","W","i","n">> >>,
      << <<"M","A","T","S">>, <<"B","o","o","k"," ","A","s","s","i","g","n","m","e","n","t">> >> }

\* a requester files a ticket: the tracker stamps CreatedDate and StateChangeDate
Init ==
    /\ now \in {d * DaySecs + 9 * 3600 : d \in 0..6}
    /\ \E k \in LifeKinds :
          items = << WorkItem(1, k, st_Active, IsoDate(now), NoDate, NoDate, IsoDate(now))
                     @@ [Rev |-> 1] >>
    /\ df = NoFrame
    /\ call = NoCall
    /\ clock_bdays = <<0>>
    /\ NotifyIdle

\* a day passes; the open dashboard reloads every AUTO_REFRESH_SECONDS, so
\* the frame on display was fetched on the day that ends
Tick ==
    /\ DateOf(now) < MaxDay
    /\ df.ref = now
    /\ now' = now + DaySecs
    /\ clock_bdays' =
          [i \in 1..Len(items) |->
              IF weekday(now') < 5 /\ IsOpenOf(items[i]) /\ ~IsPausedOf(items[i])
              THEN clock_bdays[i] + 1 ELSE clock_bdays[i]]
    /\ UNCHANGED <<items, df, call>>
    /\ UNCHANGED notify_vars

\* the assignee moves an open ticket to another state: the tracker stamps
\* StateChangeDate, and ClosedDate when the ticket is completed
ChangeState ==
    /\ \E i \in 1..Len(items), s \in LifeStates :
          /\ items[i].State \notin {s, s_Completed}
          /\ items[i].Rev <= MaxChanges
          /\ items' = [items EXCEPT ![i] =
                [@ EXCEPT !.State = s,
                          !.StateChangeDate = IsoDate(now),
                          !.ClosedDate = IF s = s_Completed THEN IsoDate(now) ELSE @,
                          !.Rev = @ + 1]]
    /\ UNCHANGED <<now, df, call, clock_bdays>>
    /\ UNCHANGED notify_vars

Next == Tick \/ ChangeState \/ fetch_work_items

Spec == Init /\ [][Next]_vars

\* ------------------------------------------------------------------------
\* Properties of the projection
\* ------------------------------------------------------------------------
Rows == {df.rows[i] : i \in 1..Len(df.rows)}

Closed(r) == r.State \in {s_Completed, s_Cancelled}

\* the closure as-of point of a row of the current frame
ClosureAsOf(r) ==
    IF r.EndDate # NaT THEN r.EndDate
    ELSE IF r.ClosedDate # NaT THEN r.ClosedDate ELSE df.ref

\* C1: a ticket whose state is exactly Completed or Cancelled has status
\* Completed or Completed Late, never Paused, On Track, At Risk or Breached.
C1_ClosedStatus ==
    \A r \in Rows :
        Closed(r) => r.SLA_Status \in {"Completed", "Completed Late"}

\* a cancelled ticket far past its allowance (it would be Breached if open)
C1_Witness ==
    \E r \in Rows :
        /\ r.State = s_Cancelled
        /\ r.Remaining_BDays < 0
        /\ r.SLA_Status = "Completed Late"

\* C2: an open, unpaused ticket is Breached when remaining < 0, At Risk when
\* 0 <= remaining <= 1 and On Track when remaining >= 2.
C2_OpenThresholds ==
    \A r \in Rows :
        (r.IsOpen /\ ~r.IsPaused) =>
            /\ r.Remaining_BDays < 0 => r.SLA_Status = "Breached"
            /\ (0 <= r.Remaining_BDays /\ r.Remaining_BDays <= 1)
                   => r.SLA_Status = "At Risk"
            /\ r.Remaining_BDays >= 2 => r.SLA_Status = "On Track"

C2_Witness ==
    \E r \in Rows :
        /\ r.IsOpen /\ ~r.IsPaused
        /\ r.Remaining_BDays = 1
        /\ r.SLA_Status = "At Risk"

\* C3: an open ticket whose state contains, in any letter case, "waiting for
\* info" or "pending lockdown" is Paused whatever its remaining days.
C3_PausedWins ==
    \A r \in Rows :
        (/\ ~Closed(r)
         /\ \/ Contains(Lower(r.State), s_waiting_for_info)
            \/ Contains(Lower(r.State), s_pending_lockdown))
        => r.SLA_Status = "Paused"

C3_Witness ==
    \E r \in Rows :
        /\ r.State = st_PENDING
        /\ r.Remaining_BDays < 0
        /\ r.SLA_Status = "Paused"

\* C4: a closed ticket is Completed exactly when it is not a Monday-deadline
\* ticket and elapsed <= slaDays, or it is one and its closure as-of point is
\* <= slaDeadline; otherwise it is Completed Late.
C4_ClosedOnTime ==
    \A r \in Rows :
        Closed(r) =>
            LET ontime == \/ ~r.IsMondayDeadline /\ r.Elapsed_BDays <= r.SLA_Days
                          \/ r.IsMondayDeadline /\ ClosureAsOf(r) <= r.SLA_Deadline
            IN  /\ ontime => r.SLA_Status = "Completed"
                /\ ~ontime => r.SLA_Status = "Completed Late"

\* a Monday-deadline ticket closed at the deadline instant itself
C4_Witness ==
    \E r \in Rows :
        /\ Closed(r) /\ r.IsMondayDeadline
        /\ ClosureAsOf(r) = r.SLA_Deadline
        /\ r.SLA_Status = "Completed"

\* the as-of point of a row of the current frame
C5_AsOf(r) ==
    IF Closed(r) THEN ClosureAsOf(r)
    ELSE IF r.IsPaused
         THEN IF r.StateChangeDate # NaT THEN r.StateChangeDate ELSE df.ref
         ELSE df.ref

\* C5: elapsedBusinessDays = businessDaysBetween(createdAt, asOf): asOf is
\* endDate, else closedAt, else the reference time for a closed ticket;
\* stateChangeAt, else the reference time for an open paused ticket; the
\* reference time for an open unpaused ticket.
C5_Elapsed ==
    \A r \in Rows :
        r.Elapsed_BDays = business_days_between(r.CreatedDate, C5_AsOf(r))

\* a paused ticket whose pause point gives another count than the reference time
C5_Witness ==
    \E r \in Rows :
        /\ ~Closed(r) /\ r.IsPaused /\ r.StateChangeDate # NaT
        /\ r.Elapsed_BDays = business_days_between(r.CreatedDate, r.StateChangeDate)
        /\ r.Elapsed_BDays # business_days_between(r.CreatedDate, df.ref)

\* C8: for a closed Monday-deadline ticket with closure as-of point c,
\* remaining = businessDaysBetween(c, deadline) >= 0 when c <= deadline and
\* -businessDaysBetween(deadline, c) <= 0 otherwise; for every ticket that is
\* not a Monday-deadline ticket remaining = slaDays - elapsed.
C8_Remaining ==
    \A r \in Rows :
        /\ (r.IsMondayDeadline /\ Closed(r)) =>
              LET c == ClosureAsOf(r)
              IN  IF c <= r.SLA_Deadline
                  THEN /\ r.Remaining_BDays = business_days_between(c, r.SLA_Deadline)
                       /\ r.Remaining_BDays >= 0
                  ELSE /\ r.Remaining_BDays = -business_days_between(r.SLA_Deadline, c)
                       /\ r.Remaining_BDays <= 0
        /\ ~r.IsMondayDeadline => r.Remaining_BDays = r.SLA_Days - r.Elapsed_BDays

\* a Monday-deadline ticket closed business days after its deadline
C8_Witness ==
    \E r \in Rows :
        /\ r.IsMondayDeadline /\ Closed(r)
        /\ ClosureAsOf(r) > r.SLA_Deadline
        /\ r.Remaining_BDays < 0

\* C9: every ticket of the output has a defined slaDeadline: nextMonday(createdAt)
\* when the scenario is a Monday-deadline scenario and the team is exactly
\* "Acquisition & Growth", addBusinessDays(createdAt, slaDays) otherwise.
C9_Deadline ==
    \A r \in Rows :
        /\ r.SLA_Deadline # NaT
        /\ r.SLA_Deadline =
              IF /\ r.Scenario \in {s_Acquisition_Win_Override, s_Weekly_Win_Processing}
                 /\ r.Team = s_Acquisition_Growth
              THEN next_monday(r.CreatedDate)
              ELSE add_business_days(r.CreatedDate, r.SLA_Days)

\* a weekly-win ticket of another team: its deadline is not the next Monday
C9_Witness ==
    \E r \in Rows :
        /\ r.Scenario = s_Weekly_Win_Processing
        /\ r.Team # s_Acquisition_Growth
        /\ r.SLA_Deadline = add_business_days(r.CreatedDate, r.SLA_Days)
        /\ r.SLA_Deadline # next_monday(r.CreatedDate)

\* ------------------------------------------------------------------------
\* Properties of the business-day helpers
\* ------------------------------------------------------------------------
\* C10: next_monday(t) is a Monday at 23:59, its date strictly after t's date
\* and at most 7 days after it, with no Monday in between: 7 days later when
\* t is a Monday, 6 days later when t is a Tuesday.
C10_NextMonday ==
    (call.op = "next_monday" /\ call.a # NaT) =>
        LET t == call.a
            m == call.result
        IN  /\ DateOf(m) % 7 = 0
            /\ m % DaySecs = 23 * 3600 + 59 * 60
            /\ DateOf(m) > DateOf(t)
            /\ DateOf(m) - DateOf(t) <= 7
            /\ \A d \in (DateOf(t) + 1)..(DateOf(m) - 1) : d % 7 # 0
            /\ DateOf(t) % 7 = 0 => DateOf(m) = DateOf(t) + 7
            /\ DateOf(t) % 7 = 1 => DateOf(m) = DateOf(t) + 6

C10_Witness ==
    /\ call.op = "next_monday"
    /\ call.a # NaT
    /\ DateOf(call.a) % 7 = 0
    /\ DateOf(call.result) = DateOf(call.a) + 7

\* ------------------------------------------------------------------------
\* Properties over fetch cycles
\* ------------------------------------------------------------------------
\* the row of the frame on display was projected from the item as it is now
SameTicket(r, item) ==
    /\ r.ID = item.Id
    /\ r.State = item.State
    /\ r.RawCategory = item.Category
    /\ r.SubType = item.State1
    /\ r.CreatedDate = to_datetime(item.CreatedDate)
    /\ r.ClosedDate = to_datetime(item.ClosedDate)
    /\ r.EndDate = to_datetime(item.EndDate)
    /\ r.StateChangeDate = to_datetime(item.StateChangeDate)

\* C6: while a ticket stays paused with stateChangeAt defined and its fields
\* unchanged, projecting it again at a later reference time gives the same
\* elapsed days, the same remaining days and the same status, Paused.
C6_FrozenWhilePaused ==
    \A i \in 1..Len(items) : \A r \in Rows :
        (/\ SameTicket(r, items[i])
         /\ r.IsOpen /\ r.IsPaused
         /\ r.StateChangeDate # NaT
         /\ df.ref <= now)
        => \E j \in 1..Len(_parse_items(items, now)) :
              LET q == _parse_items(items, now)[j]
              IN  /\ q.ID = r.ID
                  /\ q.Elapsed_BDays = r.Elapsed_BDays
                  /\ q.Remaining_BDays = r.Remaining_BDays
                  /\ q.SLA_Status = r.SLA_Status
                  /\ q.SLA_Status = "Paused"

\* a paused ticket on display, fetched before the business day that has begun
C6_Witness ==
    \E i \in 1..Len(items) : \E r \in Rows :
        /\ SameTicket(r, items[i])
        /\ r.IsOpen /\ r.IsPaused /\ r.StateChangeDate # NaT
        /\ DateOf(df.ref) < DateOf(now)
        /\ weekday(now) < 5
        /\ business_days_between(r.CreatedDate, now)
              # business_days_between(r.CreatedDate, r.StateChangeDate)

\* C7: the SLA clock is frozen while a ticket is paused: once the ticket is
\* open and unpaused again, the business days that began while it was paused
\* are not counted in elapsed days nor subtracted from remaining days.
C7_PausedDaysNotCounted ==
    \A i \in 1..Len(items) : \A r \in Rows :
        (/\ SameTicket(r, items[i])
         /\ df.ref = now
         /\ r.IsOpen /\ ~r.IsPaused)
        => /\ r.Elapsed_BDays <= clock_bdays[i]
           /\ ~r.IsMondayDeadline => r.Remaining_BDays >= r.SLA_Days - clock_bdays[i]

\* the Monday-Friday dates among the dates from..to
WeekdaysIn(from, to) == Cardinality({d \in from..to : d % 7 \in 0..4})

\* C11: for a defined start and n >= 0, add_business_days(start, n) is the
\* earliest start + k days such that exactly n of the days start+1..start+k
\* are Monday-Friday; for n >= 1 it is a Monday-Friday day (a Friday plus 1 is
\* the following Monday), for n = 0 it is start unchanged.
C11_AddBusinessDays ==
    (call.op = "add_business_days" /\ call.a # NaT) =>
        LET start == call.a
            n == call.b
            k == DateOf(call.result) - DateOf(start)
        IN  /\ k >= 0
            /\ call.result = start + k * DaySecs
            /\ WeekdaysIn(DateOf(start) + 1, DateOf(start) + k) = n
            /\ \A j \in 0..(k - 1) :
                  WeekdaysIn(DateOf(start) + 1, DateOf(start) + j) # n
            /\ n >= 1 => DateOf(call.result) % 7 \in 0..4
            /\ n = 0 => call.result = start
            /\ (n = 1 /\ DateOf(start) % 7 = 4) => k = 3

\* a Friday plus one business day
C11_Witness ==
    /\ call.op = "add_business_days"
    /\ call.a # NaT
    /\ DateOf(call.a) % 7 = 4
    /\ call.b = 1
    /\ DateOf(call.result) = DateOf(call.a) + 3

\* ------------------------------------------------------------------------
\* SpecCalProj: the calls of the helpers, and the fetch of an arbitrary ticket
\* ------------------------------------------------------------------------
InitCalProj == InitCal \/ InitProj

NextCalProj ==
    \/ items = <<>> /\ NextCal
    \/ items # <<>> /\ fetch_work_items

SpecCalProj == InitCalProj /\ [][NextCalProj]_vars

\* C12: business_days_between is never negative (end before start and
\* undefined endpoints included), is the number of Monday-Friday dates of the
\* inclusive date range minus 1, floored at 0, and is 0 on one and the same
\* date; so elapsedBusinessDays >= 0 for every projected ticket.
C12_NonNegative ==
    /\ call.op = "business_days_between" =>
          /\ call.result >= 0
          /\ (call.a = NaT \/ call.b = NaT) => call.result = 0
          /\ (call.a # NaT /\ call.b # NaT) =>
                LET c == WeekdaysIn(DateOf(call.a), DateOf(call.b)) - 1
                IN  /\ call.result = IF c > 0 THEN c ELSE 0
                    /\ DateOf(call.a) = DateOf(call.b) => call.result = 0
    /\ \A r \in Rows : r.Elapsed_BDays >= 0

\* the end is business days before the start
C12_Witness ==
    /\ call.op = "business_days_between"
    /\ call.a # NaT /\ call.b # NaT
    /\ WeekdaysIn(DateOf(call.b), DateOf(call.a)) > 2
    /\ DateOf(call.b) < DateOf(call.a)
    /\ call.result = 0

\* ------------------------------------------------------------------------
\* SpecClassify: one call of resolve_team, resolve_scenario or get_sla_days
\* ------------------------------------------------------------------------
s_SMB == <<"S","M","B">>
s_MATS == <<"M","A","T","S">>
s_Performance_Solutions == <<"P","e","r","f","o","r","m","a","n","c","e"," ","S","o","l","u","t","i","o","n","s">>
s_Book_Assignment_Update == <<"B","o","o","k"," ","A","s","s","i","g","n","m","e","n","t"," ","U","p","d","a","t","e">>
s_Quota_Moves == <<"Q","u","o","t","a"," ","M","o","v","e","s">>
s_Quota_Move == <<"Q","u","o","t","a"," ","M","o","v","e">>
s_Totally_Custom_Thing == <<"T","o","t","a","l","l","y"," ","C","u","s","t","o","m"," ","T","h","i","n","g">>
s_ps_123 == <<"p","s","-","1","2","3">>

\* the seven teams
Teams == {TEAM_MAP[i][2] : i \in 1..Len(TEAM_MAP)} \cup {s_Other}

\* Custom.Category values
CategoryProbes ==
    { <<>>, <<" "," "," ">>, s_ps_123, <<"P","S">>, <<" "," ","s","m","b"," ">>, <<"A","c","q","u","i","s","i","t","i","o","n">>, <<"a","c","q","u","i","s","i","t","i","o","n"," ","&"," ","g","r","o","w","t","h">>,
      <<"M","A","T","S"," ","-"," ","E","M","E","A">>, <<"W","i","n","d","o","w","s"," ","S","t","o","r","e">>, <<"w","i","n","d","o","w","s">>, <<"A","D">>, <<"A","d","m","i","n">>, <<"x","P","S">>, <<"S","M","B","-","P","S">>,
      <<"G","a","r","b","a","g","e"," ","4","2">>, <<"A","c","q","u","i","s","i","t","i","o","n","P","S">>, <<"P">> }

\* Custom.State1 values
SubTypeProbes ==
    { <<>>, s_Unknown, <<"u","n","k","n","o","w","n">>, s_Quota_Move, <<"Q","u","o","t","a">>, <<"Q","U","O","T","A"," ","M","O","V","E","S"," ","n","o","w">>,
      s_Totally_Custom_Thing, <<"V","a","l","i","d"," ","W","i","n">>, <<"W","i","n"," ","O","v","e","r","r","i","d","e">>, <<"T","r","a","n","s","l","a","t","i","o","n"," ","V","a","l","i","d"," ","W","i","n">>,
      <<"B","o","o","k"," ","u","p","d","a","t","e"," ","i","n"," ","T","e","c","h">>, <<"b","o","o","k">>, <<"a">>, <<" ">>, <<"G","r","o","u","p","i","n","g"," ","o","r"," ","H","M">>, <<"S","L">>,
      <<"P","e","r","s","o","n","n","e","l"," ","/"," ","R","e","p","a","r","e","n","t","i","n","g">>, <<"U","n","e","n","g","a","g","e","d">>, <<"H","i","e","r","a","r","c","h","y"," ","M","a","p","p","i","n","g">>, <<"Z","z">> }

\* scenario arguments: what resolve_scenario returns, and other text
ScenarioProbes ==
    {resolve_scenario(s) : s \in SubTypeProbes}
    \cup {SCENARIO_SLA[i].scenario : i \in 1..Len(SCENARIO_SLA)}
    \cup { <<"b","o","o","k"," ","a","s","s","i","g","n","m","e","n","t"," ","u","p","d","a","t","e">>, <<"G","r","o","u","p","i","n","g"," ","o","r"," ","H","M"," ","f","i","x">> }

\* team arguments: the seven teams, and other text
TeamProbes == Teams \cup { <<"s","m","b">>, <<"M","a","t","s"," ","E","M","E","A">>, <<>> }

NoTextCall == [op |-> "none", a |-> <<>>, b |-> <<>>, result |-> <<>>]

CallResolveTeam ==
    /\ call.op = "none"
    /\ \E c \in CategoryProbes :
          call' = [op |-> "resolve_team", a |-> c, b |-> <<>>, result |-> resolve_team(c)]
    /\ UNCHANGED <<now, items, df, clock_bdays>>
    /\ UNCHANGED notify_vars

CallResolveScenario ==
    /\ call.op = "none"
    /\ \E s \in SubTypeProbes :
          call' = [op |-> "resolve_scenario", a |-> s, b |-> <<>>,
                   result |-> resolve_scenario(s)]
    /\ UNCHANGED <<now, items, df, clock_bdays>>
    /\ UNCHANGED notify_vars

\* the result is kept as a one-element sequence
CallGetSlaDays ==
    /\ call.op = "none"
    /\ \E s \in ScenarioProbes, t \in TeamProbes :
          call' = [op |-> "get_sla_days", a |-> s, b |-> t,
                   result |-> << get_sla_days(s, t) >>]
    /\ UNCHANGED <<now, items, df, clock_bdays>>
    /\ UNCHANGED notify_vars

InitClassify ==
    /\ now = 0
    /\ items = <<>>
    /\ df = NoFrame
    /\ call = NoTextCall
    /\ clock_bdays = <<>>
    /\ NotifyIdle

NextClassify == CallResolveTeam \/ CallResolveScenario \/ CallGetSlaDays

SpecClassify == InitClassify /\ [][NextClassify]_vars

Min(S) == CHOOSE x \in S : \A y \in S : x <= y
InCatalog(scenario) == \E i \in 1..Len(SCENARIO_SLA) : SCENARIO_SLA[i].scenario = scenario

\* positions of the entry's team exceptions that apply to the team
EmbeddedHits(sla, team) ==
    {i \in 1..Len(sla) : /\ sla[i].key \notin {s_default, s_description, s_info}
                         /\ sla[i].isint
                         /\ Contains(Upper(team), Upper(sla[i].key))}

\* C13: a team-level override takes precedence over the scenario catalog:
\* for every scenario string (catalog scenario with any default, scenario with
\* an embedded team exception, unmapped scenario) get_sla_days(scenario, "SMB")
\* returns 5.
C13_TeamOverrideFirst ==
    (call.op = "get_sla_days" /\ call.b = s_SMB) => call.result = <<5>>

\* SMB asked about a catalog scenario whose own entry says something else
C13_Witness ==
    /\ call.op = "get_sla_days"
    /\ call.b = s_SMB
    /\ InCatalog(call.a)
    /\ ValOf(ScenarioSlaOf(call.a), s_default) # 5
    /\ call.result = <<5>>

\* no key of the team's overrides applies to the scenario
NoTeamOverride(scenario, team) ==
    \A i \in 1..Len(TEAM_SLA_OVERRIDES) :
        TEAM_SLA_OVERRIDES[i].team = team =>
            \A j \in 1..Len(TEAM_SLA_OVERRIDES[i].overrides) :
                LET key == TEAM_SLA_OVERRIDES[i].overrides[j].key
                IN  key # s_default /\ ~Contains(Lower(scenario), Lower(key))

\* C14: when no team-level override applies to (scenario, team), get_sla_days
\* returns, from the scenario's catalog entry (the global default entry of 5
\* days when the scenario is not in the catalog), the integer of the first key
\* other than default/description/info whose upper-cased text occurs in the
\* upper-cased team name, and otherwise the entry's default; in particular
\* ("Book Assignment Update", "MATS") gives 4 and ("Book Assignment Update",
\* "Performance Solutions") gives 2.
C14_ScenarioCatalog ==
    (call.op = "get_sla_days" /\ NoTeamOverride(call.a, call.b)) =>
        LET entry == IF InCatalog(call.a) THEN ScenarioSlaOf(call.a) ELSE DEFAULT_SLA
            hits  == EmbeddedHits(entry, call.b)
        IN  /\ hits # {} => call.result = << entry[Min(hits)].val >>
            /\ hits = {} => call.result = << ValOf(entry, s_default) >>
            /\ ~InCatalog(call.a) => call.result = <<5>>
            /\ (call.a = s_Book_Assignment_Update /\ call.b = s_MATS)
                   => call.result = <<4>>
            /\ (call.a = s_Book_Assignment_Update /\ call.b = s_Performance_Solutions)
                   => call.result = <<2>>

\* the embedded MATS exception of Book Assignment Update has been applied
C14_Witness ==
    /\ call.op = "get_sla_days"
    /\ call.a = s_Book_Assignment_Update
    /\ call.b = s_MATS
    /\ NoTeamOverride(call.a, call.b)
    /\ call.result = <<4>>
    /\ ValOf(ScenarioSlaOf(call.a), s_default) # 4

SevenTeams ==
    { s_Performance_Solutions, s_Acquisition_Growth, s_SMB, s_MATS,
      <<"W","i","n","d","o","w","s"," ","S","t","o","r","e">>, <<"A","g","e","n","c","y"," ","D","e","v","e","l","o","p","m","e","n","t">>, s_Other }

\* C15 as stated: resolve_team is total: for every category string (empty,
\* whitespace-only or garbage included) it returns exactly one of the seven
\* teams, namely the team of the first TEAM_MAP prefix, in declaration order,
\* that the trimmed upper-cased category starts with, and "Other" when no
\* prefix matches; "ps-123" gives Performance Solutions and "" gives Other.
\* The prefix is taken as TEAM_MAP declares it ("Acquisition" is in mixed case).
C15_PrefixAsDeclared ==
    call.op = "resolve_team" =>
        LET folded == Upper(Strip(call.a))
            hits   == {i \in 1..Len(TEAM_MAP) : StartsWith(folded, TEAM_MAP[i][1])}
        IN  /\ call.result \in SevenTeams
            /\ hits # {} => call.result = TEAM_MAP[Min(hits)][2]
            /\ hits = {} => call.result = s_Other
            /\ call.a = s_ps_123 => call.result = s_Performance_Solutions
            /\ call.a = <<>> => call.result = s_Other

\* C15, amended: resolve_team is total: for every category string (empty,
\* whitespace-only or garbage included) it returns exactly one of the seven
\* teams, namely the team of the first TEAM_MAP prefix, in declaration order,
\* whose upper-cased text the trimmed upper-cased category starts with, and
\* "Other" when no prefix matches; "ps-123" gives Performance Solutions and ""
\* gives Other.
C15_ResolveTeamTotal ==
    call.op = "resolve_team" =>
        LET folded == Upper(Strip(call.a))
            hits   == {i \in 1..Len(TEAM_MAP) :
                          StartsWith(folded, Upper(TEAM_MAP[i][1]))}
        IN  /\ call.result \in SevenTeams
            /\ hits # {} => call.result = TEAM_MAP[Min(hits)][2]
            /\ hits = {} => call.result = s_Other
            /\ call.a = s_ps_123 => call.result = s_Performance_Solutions
            /\ call.a = <<>> => call.result = s_Other

\* a category has been resolved by the mixed-case prefix "Acquisition"
C15_Witness ==
    /\ call.op = "resolve_team"
    /\ call.a = <<"a","c","q","u","i","s","i","t","i","o","n"," ","&"," ","g","r","o","w","t","h">>
    /\ call.result = s_Acquisition_Growth

\* C16: resolve_scenario returns "Other" when the sub-type is empty or exactly
\* "Unknown"; otherwise the scenario of the first SCENARIO_MAP entry, in
\* declaration order, whose lower-cased keyword is a substring of the
\* lower-cased sub-type or contains it; and the sub-type unchanged when no
\* entry matches. "Quota Move" gives "Quota Moves" and "Totally Custom Thing"
\* is passed through.
C16_ResolveScenario ==
    call.op = "resolve_scenario" =>
        LET sub  == Lower(call.a)
            hits == {i \in 1..Len(SCENARIO_MAP) :
                        LET key == Lower(SCENARIO_MAP[i][1])
                        IN  Contains(sub, key) \/ Contains(key, sub)}
        IN  IF call.a = <<>> \/ call.a = s_Unknown
            THEN call.result = s_Other
            ELSE /\ hits # {} => call.result = SCENARIO_MAP[Min(hits)][2]
                 /\ hits = {} => call.result = call.a
                 /\ call.a = s_Quota_Move => call.result = s_Quota_Moves
                 /\ call.a = s_Totally_Custom_Thing => call.result = s_Totally_Custom_Thing

\* a sub-type shorter than every keyword has been matched by a keyword that
\* contains it
C16_Witness ==
    /\ call.op = "resolve_scenario"
    /\ call.a = <<"Q","u","o","t","a">>
    /\ call.result = s_Quota_Moves

\* ------------------------------------------------------------------------
\* SpecBatch: _parse_items on a batch of up to MaxItems tickets
\* ------------------------------------------------------------------------
MaxItems == 3

\* the tickets a batch is made of; two of them have no usable createdAt
BatchProbes ==
    { WorkItem(0, << <<"M","A","T","S">>, <<"B","o","o","k"," ","A","s","s","i","g","n","m","e","n","t">> >>, st_Active,
               IsoDate(0 * DaySecs + 9 * 3600), NoDate, NoDate, NoDate),
      WorkItem(0, << <<"A","c","q","u","i","s","i","t","i","o","n">>, <<"V","a","l","i","d"," ","W","i","n">> >>, s_Completed,
               IsoDate(3 * DaySecs + 9 * 3600), IsoDate(8 * DaySecs + Noon), NoDate, NoDate),
      WorkItem(0, << <<" "," ","s","m","b"," ">>, <<"Q","u","o","t","a"," ","M","o","v","e">> >>, st_Waiting,
               IsoDate(5 * DaySecs + 9 * 3600), NoDate, NoDate, IsoDate(6 * DaySecs + Noon)),
      WorkItem(0, << <<"P","S","-","1">>, <<"V","a","l","i","d"," ","W","i","n">> >>, st_Active,
               NoDate, NoDate, NoDate, NoDate),
      WorkItem(0, << <<"M","A","T","S">>, <<"B","o","o","k"," ","A","s","s","i","g","n","m","e","n","t">> >>, s_Completed,
               BadDate, IsoDate(2 * DaySecs + Noon), NoDate, NoDate) }

\* batches: System.Id is the position in the batch
Batches ==
    UNION { { [i \in 1..n |-> [f[i] EXCEPT !.Id = i]] : f \in [1..n -> BatchProbes] }
            : n \in 0..MaxItems }

BatchRefTimes == {6 * DaySecs + Noon, 9 * DaySecs + Noon}

\* fetch_work_items hands the batch to _parse_items with the clock as the
\* reference time; the call records the number of rows returned
CallParseItems ==
    /\ call = NoCall
    /\ df' = [ref |-> now, rows |-> _parse_items(items, now)]
    /\ call' = [op |-> "_parse_items", a |-> Len(items), b |-> 0,
                result |-> Len(df'.rows)]
    /\ UNCHANGED <<now, items, clock_bdays>>
    /\ UNCHANGED notify_vars

InitBatch ==
    /\ now \in BatchRefTimes
    /\ items \in Batches
    /\ df = NoFrame
    /\ call = NoCall
    /\ clock_bdays = <<>>
    /\ NotifyIdle

NextBatch == CallParseItems

SpecBatch == InitBatch /\ [][NextBatch]_vars

BadTicket(item) == to_datetime(item.CreatedDate) = NaT
GoodTicket(item) == ~BadTicket(item)

GoodPositions == {i \in 1..Len(items) : GoodTicket(items[i])}

\* C17: a ticket whose createdAt is missing or unparseable is excluded from
\* the output of _parse_items, and every other ticket of the same batch is
\* still present in the output with the same derived fields it would have had
\* if the bad ticket had not been in the batch; the batch is never aborted
\* (a frame is returned for every batch, with one row per good ticket).
C17_BadTicketExcluded ==
    call.op = "_parse_items" =>
        /\ df.ref = now
        /\ Len(df.rows) = Cardinality(GoodPositions)
        /\ \A r \in Rows : GoodTicket(items[r.ID])
        /\ \A i \in GoodPositions :
              \E k \in 1..Len(df.rows) :
                 /\ df.rows[k].ID = i
                 /\ df.rows[k] = _parse_items(<< items[i] >>, df.ref)[1]
        /\ df.rows = _parse_items(SelectSeq(items, GoodTicket), df.ref)

\* a batch of good and bad tickets has been parsed
C17_Witness ==
    /\ call.op = "_parse_items"
    /\ \E i, j \in 1..Len(items) : GoodTicket(items[i]) /\ BadTicket(items[j])
    /\ Len(df.rows) >= 1
    /\ Len(df.rows) < Len(items)

\* ------------------------------------------------------------------------
\* SLA notifications: check_and_notify_at_risk
\* ------------------------------------------------------------------------
\* outcomes of the GET of a ticket's comments
GetOutcomes == {"200", "non200", "exception"}

\* outcomes of the POST of an alert comment: stored and answered 200/201,
\* answered with another status, raised before the tracker stored it, or
\* stored by the tracker while the response was lost (timeout)
PostOutcomes == {"created", "rejected", "exception", "lost"}

\* _has_existing_alert: True only for a 200 answer that lists an alert comment
_has_existing_alert(cm, ticket_id, get) == get = "200" /\ cm[ticket_id] > 0

\* _post_sla_alert: the comment is stored or not; the return value
PostStores(post) == post \in {"created", "lost"}
_post_sla_alert(post) == post = "created"

\* _load_notified: session state first, then the file
_load_notified ==
    IF session_state.present THEN session_state.ids
    ELSE IF notified_file.present THEN notified_file.ids ELSE {}

\* _load_notified copies the file into the session state when it reads the file
SessionAfterLoad ==
    IF ~session_state.present /\ notified_file.present
    THEN Stored(notified_file.ids) ELSE session_state

NoRequest == [get |-> "none", post |-> "none"]

\* dataframe[dataframe["SLA_Status"].str.contains("At Risk")], as ticket ids
IsAtRisk(row) == row.SLA_Status = "At Risk"
AtRiskIds(rows) ==
    LET at_risk_df == SelectSeq(rows, IsAtRisk)
    IN  [i \in 1..Len(at_risk_df) |-> at_risk_df[i].ID]

\* the for loop over the at-risk rows; g and p give the outcome of the
\* requests made for each ticket
RECURSIVE NotifyLoop(_, _, _, _, _)
NotifyLoop(ids, i, st, g, p) ==
    IF i > Len(ids) THEN st
    ELSE LET tid == ids[i]
         IN  IF tid \in st.notified
             THEN NotifyLoop(ids, i + 1, st, g, p)
             ELSE IF _has_existing_alert(st.comments, tid, g[tid])
             THEN NotifyLoop(ids, i + 1,
                      [st EXCEPT !.notified = @ \cup {tid},
                                 !.log[tid] = [get |-> g[tid], post |-> "none"]],
                      g, p)
             ELSE LET success == _post_sla_alert(p[tid])
                  IN  NotifyLoop(ids, i + 1,
                          [st EXCEPT
                              !.comments[tid] = IF PostStores(p[tid]) THEN @ + 1 ELSE @,
                              !.notified = IF success THEN @ \cup {tid} ELSE @,
                              !.new_alerts = IF success THEN @ + 1 ELSE @,
                              !.log[tid] = [get |-> g[tid], post |-> p[tid]]],
                          g, p)

MaxComments == 2
MaxNotifyDay == 5

\* one run of check_and_notify_at_risk on the current frame
check_and_notify_at_risk ==
    /\ df # NoFrame
    /\ \A t \in DOMAIN comments : comments[t] < MaxComments
    /\ LET ids == AtRiskIds(df.rows)
           NoLog == [t \in DOMAIN comments |-> NoRequest]
       IN  IF ids = <<>>
           THEN /\ http_log' = NoLog
                /\ UNCHANGED <<comments, session_state, notified_file>>
           ELSE \E g \in [DOMAIN comments -> GetOutcomes],
                   p \in [DOMAIN comments -> PostOutcomes],
                   write_ok \in BOOLEAN :
                   LET end == NotifyLoop(ids, 1,
                                  [notified |-> _load_notified, comments |-> comments,
                                   new_alerts |-> 0, log |-> NoLog], g, p)
                   IN  /\ comments' = end.comments
                       /\ http_log' = end.log
                       /\ IF end.new_alerts > 0
                          THEN /\ session_state' = Stored(end.notified)
                               /\ notified_file' = IF write_ok THEN Stored(end.notified)
                                                   ELSE notified_file
                          ELSE /\ session_state' = SessionAfterLoad
                               /\ notified_file' = notified_file
    /\ UNCHANGED <<now, items, df, call, clock_bdays>>

\* the page reloads (every AUTO_REFRESH_SECONDS, or by the user): a new
\* session with an empty session state
NewSession ==
    /\ session_state.present
    /\ session_state' = Absent
    /\ UNCHANGED <<now, items, df, call, clock_bdays, comments, notified_file, http_log>>

\* a day passes
NextDay ==
    /\ DateOf(now) < MaxNotifyDay
    /\ now' = now + DaySecs
    /\ UNCHANGED <<items, df, call, clock_bdays>>
    /\ UNCHANGED notify_vars

\* two open MATS tickets with an SLA of 4 business days, created on Monday
\* and on Tuesday
NotifyItems ==
    << WorkItem(1, << <<"M","A","T","S">>, <<"B","o","o","k"," ","A","s","s","i","g","n","m","e","n","t">> >>, st_Active,
                IsoDate(0 * DaySecs + 9 * 3600), NoDate, NoDate, NoDate),
       WorkItem(2, << <<"M","A","T","S">>, <<"B","o","o","k"," ","A","s","s","i","g","n","m","e","n","t">> >>, st_Active,
                IsoDate(1 * DaySecs + 9 * 3600), NoDate, NoDate, NoDate) >>

InitNotify ==
    /\ now = 2 * DaySecs + Noon
    /\ items = NotifyItems
    /\ df = NoFrame
    /\ call = NoCall
    /\ clock_bdays = <<0, 0>>
    /\ comments = [i \in 1..Len(NotifyItems) |-> 0]
    /\ session_state = Absent
    /\ notified_file = Absent
    /\ http_log = [i \in 1..Len(NotifyItems) |-> NoRequest]

NextNotify ==
    \/ fetch_work_items
    \/ check_and_notify_at_risk
    \/ NewSession
    \/ NextDay

SpecNotify == InitNotify /\ [][NextNotify]_vars

\* C20: when the lookup of existing alert comments on a ticket cannot be
\* completed (the request raises or returns a non-200 status),
\* check_and_notify_at_risk errs on the side of not posting: no SLA alert
\* comment is posted on that ticket in that cycle.
C20_NoPostAfterFailedLookup ==
    \A t \in DOMAIN http_log :
        http_log[t].get \in {"non200", "exception"} => http_log[t].post = "none"

\* C19: alerting is one-time per ticket: over any sequence of refresh cycles
\* in which check_and_notify_at_risk runs, whatever the outcomes (success,
\* failure, exception, lost response) of the comment-lookup and comment-post
\* requests, at most one SLA alert comment is ever posted on a given ticket.
C19_AtMostOneAlert ==
    \A t \in DOMAIN comments : comments[t] <= 1

\* the ticket was added to the notified set in the last cycle: its alert was
\* posted successfully, or an existing alert comment was found on it
AddedInCycle(t) ==
    \/ http_log[t].post = "created"
    \/ http_log[t].get = "200" /\ http_log[t].post = "none"

\* C21: every ticket id that check_and_notify_at_risk adds to the notified
\* set during a cycle (because an alert was posted successfully or because an
\* existing alert comment was found on the ticket) is persisted by
\* _save_notified before the cycle ends, so the next cycle's _load_notified
\* contains it.
C21_AddedIdsPersisted ==
    [][check_and_notify_at_risk =>
          \A t \in DOMAIN http_log' : AddedInCycle(t)' => t \in _load_notified']_vars

\* C22: for an open, unpaused Monday-deadline ticket, remaining business days
\* = business_days_between(reference time, deadline) is never negative, so
\* its status is only ever On Track or At Risk and never Breached, no matter
\* how far the reference time is past the deadline.
C22_MondayNeverBreached ==
    \A r \in Rows :
        (r.IsOpen /\ ~r.IsPaused /\ r.IsMondayDeadline) =>
            /\ r.Remaining_BDays = business_days_between(df.ref, r.SLA_Deadline)
            /\ r.Remaining_BDays >= 0
            /\ r.SLA_Status \in {"On Track", "At Risk"}
            /\ df.ref > r.SLA_Deadline =>
                  (r.Remaining_BDays = 0 /\ r.SLA_Status = "At Risk")

\* an open Monday-deadline ticket on display more than a day after its
\* deadline, a business day having passed since
C22_Witness ==
    \E r \in Rows :
        /\ r.IsOpen /\ ~r.IsPaused /\ r.IsMondayDeadline
        /\ DateOf(df.ref) > DateOf(r.SLA_Deadline) + 1
        /\ business_days_between(r.SLA_Deadline, df.ref) >= 2
        /\ r.SLA_Status = "At Risk"

\* the reference time of the frame is on a Monday-Friday day after the day of
\* the row's deadline
RefAfterDeadlineDay(r) ==
    /\ weekday(df.ref) < 5
    /\ DateOf(df.ref) > DateOf(r.SLA_Deadline)

\* C23: for every open, unpaused, non-Monday-deadline ticket (created on any
\* day of the week, weekends included), if the reference time falls on a
\* Monday-Friday day whose calendar date is later than the calendar date of
\* the deadline, then remaining business days < 0 and the status is Breached:
\* the status computed from SLA days - elapsed days agrees with the deadline
\* computed by add_business_days(created, SLA days).
C23_BreachedAfterDeadline ==
    \A r \in Rows :
        (r.IsOpen /\ ~r.IsPaused /\ ~r.IsMondayDeadline /\ RefAfterDeadlineDay(r)) =>
            /\ r.SLA_Deadline = add_business_days(r.CreatedDate, r.SLA_Days)
            /\ r.Remaining_BDays < 0
            /\ r.SLA_Status = "Breached"

\* the same statement for tickets created on a Monday-Friday day
BreachedAfterDeadline_WeekdayCreated ==
    \A r \in Rows :
        (/\ r.IsOpen /\ ~r.IsPaused /\ ~r.IsMondayDeadline /\ RefAfterDeadlineDay(r)
         /\ weekday(r.CreatedDate) < 5) =>
            /\ r.Remaining_BDays < 0
            /\ r.SLA_Status = "Breached"

\* the order of the statuses of an open, unpaused ticket
Severity(status) ==
    IF status = "On Track" THEN 0 ELSE IF status = "At Risk" THEN 1 ELSE 2

\* C24: for a ticket that stays open and unpaused with unchanged fields, as
\* the reference time advances across successive refresh cycles the remaining
\* business days never increase and the status only moves forward in the
\* order On Track, At Risk, Breached: a later projection never shows a less
\* severe status than an earlier one.
C24_StatusOnlyWorsens ==
    \A i \in 1..Len(items) : \A r \in Rows :
        (/\ SameTicket(r, items[i])
         /\ r.IsOpen /\ ~r.IsPaused
         /\ df.ref <= now)
        => \E j \in 1..Len(_parse_items(items, now)) :
              LET q == _parse_items(items, now)[j]
              IN  /\ q.ID = r.ID
                  /\ q.Remaining_BDays <= r.Remaining_BDays
                  /\ r.SLA_Status \in {"On Track", "At Risk", "Breached"}
                  /\ q.SLA_Status \in {"On Track", "At Risk", "Breached"}
                  /\ Severity(q.SLA_Status) >= Severity(r.SLA_Status)

\* an open, unpaused ticket shown On Track whose projection at the present
\* time, with the same fields, is At Risk
C24_Witness ==
    \E i \in 1..Len(items) : \E r \in Rows :
        /\ SameTicket(r, items[i])
        /\ r.IsOpen /\ ~r.IsPaused
        /\ df.ref < now
        /\ r.SLA_Status = "On Track"
        /\ \E j \in 1..Len(_parse_items(items, now)) :
              LET q == _parse_items(items, now)[j]
              IN  /\ q.ID = r.ID
                  /\ q.Remaining_BDays < r.Remaining_BDays
                  /\ q.SLA_Status = "At Risk"

\* ------------------------------------------------------------------------
\* KPI summary of the displayed rows
\* ------------------------------------------------------------------------
\* int(((~df["IsOpen"]) & (df["Elapsed_BDays"] <= df["SLA_Days"])).sum())
sla_met(rows) ==
    Cardinality({i \in 1..Len(rows) :
                    ~rows[i].IsOpen /\ rows[i].Elapsed_BDays <= rows[i].SLA_Days})

\* total - open_count
completed_count(rows) ==
    Len(rows) - Cardinality({i \in 1..Len(rows) : rows[i].IsOpen})

\* the rows whose status is Completed, not Completed Late
CompletedOnTime(rows) ==
    Cardinality({i \in 1..Len(rows) : rows[i].SLA_Status = "Completed"})

\* C25: the SLA-compliance KPI agrees with the per-ticket status: for every
\* set of displayed tickets, sla_met (closed tickets with elapsed days <= SLA
\* days) equals the number of tickets whose status is Completed (not Completed
\* Late), Monday-deadline tickets included.
C25_KpiAgreesWithStatus ==
    /\ sla_met(df.rows) = CompletedOnTime(df.rows)
    /\ sla_met(df.rows) <= completed_count(df.rows)

\* the same statement for frames without Monday-deadline rows
KpiAgreesWithStatus_NoMondayRows ==
    (\A r \in Rows : ~r.IsMondayDeadline) =>
        sla_met(df.rows) = CompletedOnTime(df.rows)

====
